---- MODULE Spec2Model ----
(***************************************************************************)
(* Model of zenodo_rdm_migrator/transform/entries/parents.py:              *)
(* ParentRecordEntry.transform and the field rules it calls.               *)
(*                                                                         *)
(* Python values are modelled as follows.                                  *)
(*   dict          a function whose DOMAIN is the set of keys present      *)
(*   list          a sequence                                              *)
(*   str           an atomic string where the code only copies or tests    *)
(*                 it for emptiness; a sequence of characters where the    *)
(*                 code looks inside it (json.$schema, json.doi)           *)
(*   None          the value None below (only where a string may stand)    *)
(*   raise / return  the records built by Raise and Return                 *)
(***************************************************************************)
EXTENDS Integers, Sequences, FiniteSets, TLC

VARIABLES entry, partial, pc, result

vars == <<entry, partial, pc, result>>

\* ---------------------------------------------------------------- bounds
MaxCommunities == 3
MaxOwners == 2

\* ------------------------------------------------------- python helpers
None == "None"

EmptyDict == <<>>

Put(d, k, v) == [x \in (DOMAIN d) \cup {k} |-> IF x = k THEN v ELSE d[x]]

Return(value) == [kind |-> "return", value |-> value]

Raise(exc, arg) == [kind |-> "raise", exc |-> exc, arg |-> arg]

\* str.startswith(prefix) for one prefix
StartsWith(s, p) == Len(s) >= Len(p) /\ SubSeq(s, 1, Len(p)) = p

\* str.startswith(tuple of prefixes)
StartsWithAny(s, ps) == \E i \in 1..Len(ps) : StartsWith(s, ps[i])

\* sub in s
Contains(s, sub) ==
    \E i \in 1..(Len(s) + 1) :
        i + Len(sub) - 1 <= Len(s) /\ SubSeq(s, i, i + Len(sub) - 1) = sub

\* ------------------------------------------------------ module constants
ZENODO_DATACITE_PREFIXES ==
    << <<"1", "0", ".", "5", "2", "8", "1", "/">>,
       <<"1", "0", ".", "5", "0", "7", "2", "/">> >>

IGNORED_COMMUNITIES == <<"zenodo", "ecfunded">>

Deposits == <<"d", "e", "p", "o", "s", "i", "t", "s">>

InTuple(x, t) == \E i \in 1..Len(t) : t[i] = x

\* ---------------------------------------------------------- field rules
_schema(e) == "local://records/parent-v3.0.0.json"

_created(e) == e["created"]

_updated(e) == e["updated"]

_version_id(e) == e["version_id"]

Field(key, e) ==
    CASE key = "created" -> _created(e)
      [] key = "updated" -> _updated(e)
      [] key = "version_id" -> _version_id(e)

\* Entry._load_partial of invenio_rdm_migrator: each key present in the
\* entry is copied, a key that is absent is skipped.
RECURSIVE _load_partial(_, _, _)
_load_partial(e, transformed, keys) ==
    IF keys = <<>> THEN transformed
    ELSE LET key == Head(keys)
             t == IF key \in DOMAIN e
                  THEN Put(transformed, key, Field(key, e))
                  ELSE transformed
         IN _load_partial(e, t, Tail(keys))

_communities_default_first(e) ==
    LET json == e["json"]
        communities == IF "communities" \in DOMAIN json
                       THEN json["communities"] ELSE <<>>
        slugs == SelectSeq(communities,
                           LAMBDA slug : ~InTuple(slug, IGNORED_COMMUNITIES))
    IN IF communities # <<>>
       THEN [ids |-> slugs,
             default |-> IF Len(slugs) >= 1 THEN slugs[1] ELSE None]
       ELSE EmptyDict

\* communities = entry["json"].get("communities"): a missing key and an
\* empty list are both falsy, so both are read as the empty sequence.
_communities(e) ==
    LET json == e["json"]
        communities == IF "communities" \in DOMAIN json
                       THEN json["communities"] ELSE <<>>
        slugs == SelectSeq(communities,
                           LAMBDA slug : ~InTuple(slug, IGNORED_COMMUNITIES))
    IN IF communities # <<>>
       THEN [ids |-> slugs,
             default |-> IF Len(slugs) = 1 THEN slugs[1] ELSE None]
       ELSE EmptyDict

_pids_draft_legacy(e) ==
    LET json == e["json"]
    IN IF "$schema" \notin DOMAIN json THEN Raise("KeyError", "$schema")
       ELSE
       LET is_draft == Contains(json["$schema"], Deposits)
           doi_ok == /\ "doi" \in DOMAIN json
                     /\ json["doi"] # <<>>
                     /\ StartsWithAny(json["doi"], ZENODO_DATACITE_PREFIXES)
           has_conceptdoi == /\ "conceptdoi" \in DOMAIN json
                             /\ json["conceptdoi"] # ""
       IN Return(
            IF doi_ok
            THEN IF has_conceptdoi
                 THEN [doi |-> [client |-> "datacite",
                                provider |-> "datacite",
                                identifier |-> json["conceptdoi"]]]
                 ELSE IF is_draft
                      THEN [doi |-> [provider |-> "legacy", identifier |-> ""]]
                      ELSE EmptyDict
            ELSE EmptyDict)

\* entry["json"]["$schema"] raises KeyError when the key is missing.
_pids(e) ==
    LET json == e["json"]
    IN IF "$schema" \notin DOMAIN json THEN Raise("KeyError", "$schema")
       ELSE
       LET is_draft == Contains(json["$schema"], Deposits)
           doi_ok == /\ "doi" \in DOMAIN json
                     /\ json["doi"] # <<>>
                     /\ StartsWithAny(json["doi"], ZENODO_DATACITE_PREFIXES)
           has_conceptdoi == /\ "conceptdoi" \in DOMAIN json
                             /\ json["conceptdoi"] # ""
       IN Return(
            IF doi_ok
            THEN IF has_conceptdoi
                 THEN [doi |-> [client |-> "datacite",
                                provider |-> "datacite",
                                identifier |-> json["conceptdoi"]]]
                 ELSE IF ~is_draft
                      THEN [doi |-> [provider |-> "legacy", identifier |-> ""]]
                      ELSE EmptyDict
            ELSE EmptyDict)

\* ---------------------------------------------------------- transform
parent_pid(e) ==
    IF "conceptrecid" \in DOMAIN e["json"] THEN e["json"]["conceptrecid"] ELSE None

no_parent_pid_never(e) == FALSE

no_parent_pid_absent(e) == "conceptrecid" \notin DOMAIN e["json"]

\* not parent_pid
no_parent_pid(e) == parent_pid(e) = None \/ parent_pid(e) = ""

resolve_owner_deposit_first(json) ==
    LET owners == IF "owners" \in DOMAIN json THEN json["owners"] ELSE <<>>
        deposit == IF "_deposit" \in DOMAIN json THEN json["_deposit"] ELSE EmptyDict
        deposit_owners == IF "owners" \in DOMAIN deposit
                          THEN deposit["owners"] ELSE <<>>
        chosen == IF deposit_owners # <<>> THEN deposit_owners ELSE owners
    IN IF chosen = <<>> THEN <<>> ELSE <<chosen[1]>>

\* owner = next(iter(owners or deposit_owners), None); the result is the
\* one-element sequence <<owner>>, or <<>> for None.
resolve_owner(json) ==
    LET owners == IF "owners" \in DOMAIN json THEN json["owners"] ELSE <<>>
        deposit == IF "_deposit" \in DOMAIN json THEN json["_deposit"] ELSE EmptyDict
        deposit_owners == IF "owners" \in DOMAIN deposit
                          THEN deposit["owners"] ELSE <<>>
        chosen == IF owners # <<>> THEN owners ELSE deposit_owners
    IN IF chosen = <<>> THEN <<>> ELSE <<chosen[1]>>

set_owner(tjson, json) ==
    LET owner == resolve_owner(json)
    IN IF owner # <<>>
       THEN Put(tjson, "access", [owned_by |-> [user |-> owner[1]]])
       ELSE tjson

set_settings_overwrite(tjson, json) ==
    IF "access_conditions" \in DOMAIN json /\ json["access_conditions"] # ""
    THEN Put(tjson, "access",
             [settings |-> [allow_user_requests |-> TRUE,
                            allow_guest_requests |-> TRUE,
                            accept_conditions_text |-> json["access_conditions"],
                            secret_link_expiration |-> 30]])
    ELSE tjson

set_settings(tjson, json) ==
    IF "access_conditions" \in DOMAIN json /\ json["access_conditions"] # ""
    THEN LET access == IF "access" \in DOMAIN tjson
                       THEN tjson["access"] ELSE EmptyDict
         IN Put(tjson, "access",
                Put(access, "settings",
                    [allow_user_requests |-> TRUE,
                     allow_guest_requests |-> TRUE,
                     accept_conditions_text |-> json["access_conditions"],
                     secret_link_expiration |-> 30]))
    ELSE tjson

no_json_always_return(p, transformed) == Return(transformed)

no_json_always_raise(p, transformed) == Raise("KeyError", "json")

\* elif not self.partial: raise KeyError("json")
no_json(p, transformed) ==
    IF ~p THEN Raise("KeyError", "json") ELSE Return(transformed)

transform(p, e) ==
    LET transformed == _load_partial(e, EmptyDict,
                                     <<"created", "updated", "version_id">>)
    IN IF "json" \in DOMAIN e
       THEN IF no_parent_pid(e)
            THEN Raise("NoConceptRecidForDraft", e)
            ELSE LET communities == _communities(e)
                     pids == _pids(e)
                 IN IF pids.kind = "raise" THEN pids
                    ELSE LET skeleton == [x \in {"$schema", "id", "communities", "pids"} |->
                                            CASE x = "$schema" -> _schema(e)
                                              [] x = "id" -> parent_pid(e)
                                              [] x = "communities" -> communities
                                              [] x = "pids" -> pids.value]
                             owned == set_owner(skeleton, e["json"])
                             tjson == set_settings(owned, e["json"])
                         IN Return(Put(transformed, "json", tjson))
       ELSE no_json(p, transformed)

\* ------------------------------------------------------------- inputs
Opt(S) == {<<>>} \cup {<<v>> : v \in S}

SeqsUpTo(S, n) == UNION {[1..k -> S] : k \in 0..n}

DepositSchema ==
    <<"d", "e", "p", "o", "s", "i", "t", "s", "/", "r", "e", "c", "o", "r",
      "d", "s", "/", "r", "e", "c", "o", "r", "d", "-", "v", "1", ".", "0",
      ".", "0", ".", "j", "s", "o", "n">>

RecordSchema ==
    <<"r", "e", "c", "o", "r", "d", "s", "/", "r", "e", "c", "o", "r", "d",
      "-", "v", "1", ".", "0", ".", "0", ".", "j", "s", "o", "n">>

ZenodoDoi ==
    <<"1", "0", ".", "5", "2", "8", "1", "/", "z", "e", "n", "o", "d", "o",
      ".", "1", "2", "3">>

TestDoi ==
    <<"1", "0", ".", "5", "0", "7", "2", "/", "z", "e", "n", "o", "d", "o",
      ".", "1", "2", "3">>

ExternalDoi ==
    <<"1", "0", ".", "9", "9", "9", "9", "/", "e", "x", "t", "e", "r", "n",
      "a", "l", ".", "1">>

ShortDoi == <<"1", "0", ".", "5", "2", "8">>

Slugs == {"zenodo", "ecfunded", "physics", "bio"}

OwnerIds == {0, 7, 42}

JsonKeys == {"$schema", "conceptrecid", "communities", "doi", "conceptdoi",
             "owners", "_deposit", "access_conditions"}

TopKeys == {"id", "created", "updated", "version_id", "json"}

\* a dict with the keys whose option is <<v>>, without those whose option is <<>>
Dict(opts) == [k \in {x \in DOMAIN opts : opts[x] # <<>>} |-> opts[k][1]]

MkJson(s, r, c, d, cd, o, dep, a) ==
    Dict([k \in JsonKeys |->
            CASE k = "$schema" -> s
              [] k = "conceptrecid" -> r
              [] k = "communities" -> c
              [] k = "doi" -> d
              [] k = "conceptdoi" -> cd
              [] k = "owners" -> o
              [] k = "_deposit" -> dep
              [] k = "access_conditions" -> a])

MkEntry(i, c, u, v, j) ==
    Dict([k \in TopKeys |->
            CASE k = "id" -> i
              [] k = "created" -> c
              [] k = "updated" -> u
              [] k = "version_id" -> v
              [] k = "json" -> j])

\* every recognised key absent or at a typical value, all combinations
JsonsMixed ==
    {MkJson(s, r, c, d, cd, o, dep, a) :
        s \in Opt({DepositSchema, RecordSchema}),
        r \in Opt({"", "123"}),
        c \in Opt({<<>>, <<"physics">>}),
        d \in Opt({ZenodoDoi, ExternalDoi}),
        cd \in Opt({"10.5281/zenodo.100"}),
        o \in Opt({<<7, 42>>}),
        dep \in Opt({[owners |-> <<42>>]}),
        a \in Opt({"restricted"})}

EntriesMixed ==
    {MkEntry(i, c, u, v, j) :
        i \in Opt({"5"}),
        c \in Opt({"2023-01-01"}),
        u \in Opt({"2023-06-01"}),
        v \in Opt({1, 2}),
        j \in Opt(JsonsMixed)}

FullEntry(j) == MkEntry(<<"5">>, <<"2023-01-01">>, <<"2023-06-01">>, <<1>>, <<j>>)

\* every community sequence up to MaxCommunities
EntriesCommunities ==
    {FullEntry(MkJson(<<RecordSchema>>, r, c, d, <<>>, <<>>, <<>>, <<>>)) :
        r \in Opt({"123"}),
        c \in Opt(SeqsUpTo(Slugs, MaxCommunities)),
        d \in Opt({ZenodoDoi})}

\* every shape of $schema, doi and conceptdoi
EntriesPids ==
    {FullEntry(MkJson(s, r, <<>>, d, cd, <<>>, <<>>, <<>>)) :
        s \in Opt({DepositSchema, RecordSchema}),
        r \in Opt({"", "123"}),
        d \in Opt({<<>>, ShortDoi, ZenodoDoi, TestDoi, ExternalDoi}),
        cd \in Opt({"", "10.5281/zenodo.100"})}

\* every owner sequence up to MaxOwners in both places
EntriesAccess ==
    {FullEntry(MkJson(<<RecordSchema>>, <<"123">>, <<>>, <<>>, <<>>, o, dep, a)) :
        o \in Opt(SeqsUpTo(OwnerIds, MaxOwners)),
        dep \in Opt({EmptyDict} \cup
                    {[owners |-> s] : s \in SeqsUpTo(OwnerIds, MaxOwners)}),
        a \in Opt({"", "restricted", "embargoed"})}

Entries == EntriesMixed \cup EntriesCommunities \cup EntriesPids \cup EntriesAccess

\* ------------------------------------------------------- state machine
Init ==
    /\ entry \in Entries
    /\ partial \in BOOLEAN
    /\ pc = "call"
    /\ result = [kind |-> "pending"]

Transform ==
    /\ pc = "call"
    /\ result' = transform(partial, entry)
    /\ pc' = "done"
    /\ UNCHANGED <<entry, partial>>

Next == Transform

Spec == Init /\ [][Next]_vars

TypeOK ==
    /\ pc \in {"call", "done"}
    /\ partial \in BOOLEAN
    /\ (pc = "call") = (result.kind = "pending")
    /\ result.kind \in {"pending", "return", "raise"}

\* ----------------------------------------------------------- properties
Done == pc = "done"

Returned == Done /\ result.kind = "return"

HasJson == "json" \in DOMAIN entry

Copied == {"created", "updated", "version_id"}

RaisedNoConceptRecid ==
    /\ Done
    /\ result.kind = "raise"
    /\ result.exc = "NoConceptRecidForDraft"

RaisedKeyError(key) ==
    /\ Done
    /\ result.kind = "raise"
    /\ result.exc = "KeyError"
    /\ result.arg = key

\* the legacy communities with the reserved slugs removed, in order
RECURSIVE Eligible(_)
Eligible(cs) ==
    IF cs = <<>> THEN <<>>
    ELSE IF Head(cs) \in {"zenodo", "ecfunded"}
         THEN Eligible(Tail(cs))
         ELSE <<Head(cs)>> \o Eligible(Tail(cs))

LegacyCommunities ==
    IF HasJson /\ "communities" \in DOMAIN entry["json"]
    THEN entry["json"]["communities"] ELSE <<>>

\* C1: an entry whose json section lacks conceptrecid ends, in either mode,
\* in NoConceptRecidForDraft carrying the entry, and no record is returned.
C1_MissingConceptrecidRaises ==
    (Done /\ HasJson /\ "conceptrecid" \notin DOMAIN entry["json"])
        => /\ RaisedNoConceptRecid
           /\ result.arg = entry
           /\ "value" \notin DOMAIN result

C1_Witness ==
    /\ RaisedNoConceptRecid
    /\ HasJson /\ "conceptrecid" \notin DOMAIN entry["json"]
    /\ ~partial
    /\ "created" \in DOMAIN entry
    /\ "$schema" \in DOMAIN entry["json"]

\* C2: with json absent and partial mode on, transform returns a record
\* whose keys are exactly the input's keys among created, updated and
\* version_id, each with the input's value, and which has no json key.
C2_PartialCopiesPresentFields ==
    (Done /\ ~HasJson /\ partial)
        => /\ result.kind = "return"
           /\ DOMAIN result.value = (DOMAIN entry) \cap Copied
           /\ \A k \in DOMAIN result.value : result.value[k] = entry[k]
           /\ "json" \notin DOMAIN result.value

C2_Witness ==
    /\ Returned /\ ~HasJson /\ partial
    /\ DOMAIN entry = {"id", "created", "version_id"}
    /\ DOMAIN result.value = {"created", "version_id"}
    /\ result.value["version_id"] = 2

\* C3: with json absent and partial mode off, transform raises
\* KeyError("json") and returns no record, whatever the other fields are.
C3_FullModeNeedsJson ==
    (Done /\ ~HasJson /\ ~partial)
        => RaisedKeyError("json") /\ "value" \notin DOMAIN result

C3_Witness ==
    /\ RaisedKeyError("json")
    /\ ~HasJson /\ ~partial
    /\ Copied \subseteq DOMAIN entry

\* C4: when some slug is left after removing the reserved ones, the output
\* communities has ids equal to the remaining slugs in order (duplicates
\* kept) and a default key that is the slug when exactly one is left and
\* null otherwise.
C4_CommunitiesIdsAndDefault ==
    (Returned /\ HasJson /\ Eligible(LegacyCommunities) # <<>>)
        => LET out == result.value["json"]["communities"]
               left == Eligible(LegacyCommunities)
           IN /\ DOMAIN out = {"ids", "default"}
              /\ out["ids"] = left
              /\ out["default"] = IF Len(left) = 1 THEN left[1] ELSE None

C4_Witness ==
    /\ Returned /\ HasJson
    /\ LegacyCommunities = <<"zenodo", "physics", "physics">>
    /\ result.value["json"]["communities"] =
           [ids |-> <<"physics", "physics">>, default |-> None]

C4_WitnessSingle ==
    /\ Returned /\ HasJson
    /\ LegacyCommunities = <<"zenodo", "physics", "ecfunded">>
    /\ result.value["json"]["communities"] =
           [ids |-> <<"physics">>, default |-> "physics"]

\* C5: when no slug is left after removing the reserved ones (communities
\* absent, empty, or made of reserved slugs only), the output communities
\* is the empty object.
C5_NoEligibleGivesEmptyObject ==
    (Returned /\ HasJson /\ Eligible(LegacyCommunities) = <<>>)
        => result.value["json"]["communities"] = EmptyDict

\* what the code does in the three sub-cases of C5
C5_Observed ==
    (Returned /\ HasJson /\ Eligible(LegacyCommunities) = <<>>)
        => result.value["json"]["communities"] =
             IF LegacyCommunities = <<>>
             THEN EmptyDict
             ELSE [ids |-> <<>>, default |-> None]

Json == entry["json"]

HasKey(k) == HasJson /\ k \in DOMAIN Json

\* the doi is present and begins with 10.5281/ or 10.5072/
RecognizedDoi ==
    /\ HasKey("doi")
    /\ Len(Json["doi"]) >= 8
    /\ \/ SubSeq(Json["doi"], 1, 8) = <<"1", "0", ".", "5", "2", "8", "1", "/">>
       \/ SubSeq(Json["doi"], 1, 8) = <<"1", "0", ".", "5", "0", "7", "2", "/">>

NonEmptyConceptdoi == HasKey("conceptdoi") /\ Json["conceptdoi"] # ""

IsDraftSchema ==
    /\ HasKey("$schema")
    /\ \E i \in 1..Len(Json["$schema"]) :
          \E j \in i..Len(Json["$schema"]) :
              SubSeq(Json["$schema"], i, j) = <<"d", "e", "p", "o", "s", "i", "t", "s">>

DatacitePids ==
    [doi |-> [client |-> "datacite", provider |-> "datacite",
              identifier |-> Json["conceptdoi"]]]

LegacyPids == [doi |-> [provider |-> "legacy", identifier |-> ""]]

\* C6: with a $schema and a doi of a recognized prefix, pids is the datacite
\* shape when conceptdoi is non-empty (draft or not), the legacy shape
\* (without client) when there is no conceptdoi and the entry is not a
\* draft, and {} when there is no conceptdoi and the entry is a draft.
C6_PidsThreeCases ==
    (Returned /\ HasKey("$schema") /\ RecognizedDoi)
        => LET pids == result.value["json"]["pids"]
           IN /\ NonEmptyConceptdoi => pids = DatacitePids
              /\ (~NonEmptyConceptdoi /\ ~IsDraftSchema) => pids = LegacyPids
              /\ (~NonEmptyConceptdoi /\ IsDraftSchema) => pids = EmptyDict

C6_WitnessDatacite ==
    /\ Returned /\ HasKey("$schema") /\ RecognizedDoi
    /\ NonEmptyConceptdoi /\ IsDraftSchema
    /\ result.value["json"]["pids"] = DatacitePids

C6_WitnessLegacy ==
    /\ Returned /\ HasKey("$schema") /\ RecognizedDoi
    /\ HasKey("conceptdoi") /\ ~NonEmptyConceptdoi /\ ~IsDraftSchema
    /\ result.value["json"]["pids"] = LegacyPids

C6_Witness ==
    /\ Returned /\ HasKey("$schema") /\ RecognizedDoi
    /\ ~NonEmptyConceptdoi /\ IsDraftSchema
    /\ result.value["json"]["pids"] = EmptyDict

\* C7: with json and a conceptrecid, and a doi that is absent, empty or of
\* no recognized prefix, transform returns a record whose pids is {},
\* whatever conceptdoi and $schema are, a missing $schema included.
C7_UnrecognizedDoiGivesNoPids ==
    (Done /\ HasKey("conceptrecid") /\ Json["conceptrecid"] # "" /\ ~RecognizedDoi)
        => /\ result.kind = "return"
           /\ result.value["json"]["pids"] = EmptyDict

\* C7 where the code reaches the doi test: $schema is present
C7_Observed ==
    (Done /\ HasKey("conceptrecid") /\ Json["conceptrecid"] # "" /\ ~RecognizedDoi)
        => IF HasKey("$schema")
           THEN result.kind = "return" /\ result.value["json"]["pids"] = EmptyDict
           ELSE RaisedKeyError("$schema")

LegacyOwners == IF HasKey("owners") THEN Json["owners"] ELSE <<>>

LegacyDepositOwners ==
    IF HasKey("_deposit") /\ "owners" \in DOMAIN Json["_deposit"]
    THEN Json["_deposit"]["owners"] ELSE <<>>

OwnerResolves == LegacyOwners # <<>> \/ LegacyDepositOwners # <<>>

ResolvedOwner ==
    IF LegacyOwners # <<>> THEN Head(LegacyOwners) ELSE Head(LegacyDepositOwners)

HasConditions == HasKey("access_conditions") /\ Json["access_conditions"] # ""

\* C8: the owner is the first element of owners when that is non-empty,
\* else the first element of _deposit.owners when that is non-empty, else
\* none; access.owned_by.user is that owner when one resolves (0 included)
\* and is not set otherwise.
C8_OwnerResolution ==
    (Returned /\ HasJson)
        => LET out == result.value["json"]
           IN IF OwnerResolves
              THEN /\ "access" \in DOMAIN out
                   /\ "owned_by" \in DOMAIN out["access"]
                   /\ out["access"]["owned_by"] = [user |-> ResolvedOwner]
              ELSE \/ "access" \notin DOMAIN out
                   \/ "owned_by" \notin DOMAIN out["access"]

C8_Witness ==
    /\ Returned /\ HasJson
    /\ LegacyOwners = <<0, 7>>
    /\ LegacyDepositOwners = <<42>>
    /\ result.value["json"]["access"]["owned_by"]["user"] = 0

C8_WitnessFallback ==
    /\ Returned /\ HasJson
    /\ HasKey("owners") /\ LegacyOwners = <<>>
    /\ LegacyDepositOwners = <<42, 7>>
    /\ result.value["json"]["access"]["owned_by"]["user"] = 42

Settings ==
    [allow_user_requests |-> TRUE,
     allow_guest_requests |-> TRUE,
     accept_conditions_text |-> Json["access_conditions"],
     secret_link_expiration |-> 30]

\* C9: access holds owned_by and settings together when an owner resolves
\* and access_conditions is non-empty, only the one sub-key when only one
\* rule fires, and is absent when neither fires.
C9_AccessMerges ==
    (Returned /\ HasJson)
        => LET out == result.value["json"]
           IN CASE OwnerResolves /\ HasConditions ->
                     /\ "access" \in DOMAIN out
                     /\ out["access"] = [owned_by |-> [user |-> ResolvedOwner],
                                         settings |-> Settings]
                [] OwnerResolves /\ ~HasConditions ->
                     /\ "access" \in DOMAIN out
                     /\ out["access"] = [owned_by |-> [user |-> ResolvedOwner]]
                [] ~OwnerResolves /\ HasConditions ->
                     /\ "access" \in DOMAIN out
                     /\ out["access"] = [settings |-> Settings]
                [] OTHER -> "access" \notin DOMAIN out

C9_Witness ==
    /\ Returned /\ HasJson
    /\ OwnerResolves /\ HasConditions
    /\ result.value["json"]["access"] =
           [owned_by |-> [user |-> 7],
            settings |-> [allow_user_requests |-> TRUE,
                          allow_guest_requests |-> TRUE,
                          accept_conditions_text |-> "restricted",
                          secret_link_expiration |-> 30]]

C9_WitnessNeither ==
    /\ Returned /\ HasJson
    /\ ~OwnerResolves /\ HasKey("access_conditions") /\ ~HasConditions
    /\ "access" \notin DOMAIN result.value["json"]

Skeleton(out) ==
    /\ {"$schema", "id", "communities", "pids"} \subseteq DOMAIN out
    /\ out["id"] = Json["conceptrecid"]
    /\ out["$schema"] = "local://records/parent-v3.0.0.json"

\* C10 as stated: a conceptrecid key with any value, the empty string
\* included, never ends in NoConceptRecidForDraft; a returned record carries
\* id, $schema, communities and pids.
C10_AnyConceptrecidAccepted ==
    (Done /\ HasKey("conceptrecid"))
        => /\ ~RaisedNoConceptRecid
           /\ Returned => Skeleton(result.value["json"])

\* C10 amended: NoConceptRecidForDraft is raised exactly when conceptrecid is
\* absent or empty; with a non-empty conceptrecid every returned record has
\* json.id equal to it, json.$schema equal to the parent-v3.0.0 locator, and
\* the communities and pids keys.
C10_NonEmptyConceptrecidAccepted ==
    (Done /\ HasJson)
        => /\ RaisedNoConceptRecid <=>
                  (~HasKey("conceptrecid") \/ Json["conceptrecid"] = "")
           /\ Returned => Skeleton(result.value["json"])

C10_Witness ==
    /\ Returned /\ HasKey("conceptrecid")
    /\ Json["conceptrecid"] = "123"
    /\ result.value["json"]["id"] = "123"
    /\ result.value["json"]["$schema"] = "local://records/parent-v3.0.0.json"

C10_WitnessEmpty ==
    /\ RaisedNoConceptRecid
    /\ HasKey("conceptrecid") /\ Json["conceptrecid"] = ""

====
